---- MODULE Spec2Model ----
(***************************************************************************)
(* Model of DataPrep.py: move_files, copy_files and generate_csv acting on *)
(* a source directory, a destination directory and a CSV manifest.         *)
(*                                                                         *)
(* The file system is the record fs:                                       *)
(*   srcExists, dstExists : whether the two directories exist              *)
(*   src, dst             : directory entry of every name                  *)
(*   csv                  : the manifest, [exists, rows]                   *)
(* The two directories are distinct, the destination holds regular files   *)
(* only, and the manifest path lies outside both.                          *)
(* last records the most recent call: its arguments, the file system it    *)
(* started from (pre), how it ended (res) and, for move/copy, the          *)
(* candidate list, the files drawn and the files whose transfer raised.    *)
(* An Optional argument is a set: {} is None, {v} is the value v.          *)
(***************************************************************************)
EXTENDS Integers, Sequences, FiniteSets, TLC

VARIABLES fs, last

vars == <<fs, last>>

\* Cap on the manifest's length in rows (the manifest only ever grows).
MaxRows == 6

---------------------------------------------------------------------------
(* Names, characters, directory entries *)

FileNames == {"a.jpg", "b.png", "c.jpg", "D.JPG"}
DirNames == {"sub.jpg"}
Names == FileNames \cup DirNames

\* The order os.listdir reports entries in (fixed by the file system).
ListOrder == <<"a.jpg", "sub.jpg", "b.png", "c.jpg", "D.JPG">>

Extensions == {".jpg", ".PNG"}

\* The characters of the strings the model uses.
Chars(s) ==
    CASE s = "a.jpg" -> <<"a", ".", "j", "p", "g">>
      [] s = "b.png" -> <<"b", ".", "p", "n", "g">>
      [] s = "c.jpg" -> <<"c", ".", "j", "p", "g">>
      [] s = "D.JPG" -> <<"D", ".", "J", "P", "G">>
      [] s = "sub.jpg" -> <<"s", "u", "b", ".", "j", "p", "g">>
      [] s = ".jpg" -> <<".", "j", "p", "g">>
      [] s = ".PNG" -> <<".", "P", "N", "G">>

\* str.lower on one character
LowerChar(c) ==
    CASE c = "D" -> "d"
      [] c = "J" -> "j"
      [] c = "P" -> "p"
      [] c = "G" -> "g"
      [] c = "N" -> "n"
      [] OTHER -> c

\* str.lower
lower(s) == [i \in 1..Len(s) |-> LowerChar(s[i])]

\* str.endswith
endswith(s, suffix) ==
    /\ Len(suffix) <= Len(s)
    /\ SubSeq(s, Len(s) - Len(suffix) + 1, Len(s)) = suffix

NoEntry == [kind |-> "none", content |-> 0]
DirEntry == [kind |-> "dir", content |-> 0]
FileEntry(c) == [kind |-> "file", content |-> c]

Range(s) == {s[i] : i \in DOMAIN s}

---------------------------------------------------------------------------
(* Inputs *)

OptExtension == {{}} \cup {{e} : e \in Extensions}
OptPercentage == {{}} \cup {{p} : p \in {-1, 0, 50, 100, 101}}
OptColumns == {{}, {<<"filename", "label">>}, {<<"filename">>}}
OptLabel == {{}, {"cat"}}

---------------------------------------------------------------------------
(* os / os.path / shutil *)

isdir(exists) == exists

isfile(dir, name) == dir[name].kind = "file"

listdir(dir) == SelectSeq(ListOrder, LAMBDA n : dir[n].kind # "none")

\* os.makedirs(dest_dir, exist_ok=True)
makedirs(s) == [s EXCEPT !.dstExists = TRUE]

\* shutil.move(source_path, dest_path): dest_path is overwritten
moveMutant(s, f) == [s EXCEPT !.dst[f] = s.src[f]]
move(s, f) == [s EXCEPT !.src[f] = NoEntry, !.dst[f] = s.src[f]]

\* shutil.copy2(source_path, dest_path): dest_path is overwritten
copy2Mutant(s, f) == [s EXCEPT !.src[f] = NoEntry, !.dst[f] = s.src[f]]
copy2(s, f) == [s EXCEPT !.dst[f] = s.src[f]]

---------------------------------------------------------------------------
(* move_files / copy_files *)

ValidPercentageMutant(percentage) == \A p \in percentage : 0 <= p
ValidPercentage(percentage) == \A p \in percentage : 0 <= p /\ p <= 100

\* the filter of the list comprehension
matchesMutant(dir, name, ext) ==
    /\ isfile(dir, name)
    /\ (ext = {} \/ \A e \in ext : endswith(Chars(name), lower(Chars(e))))
matches(dir, name, ext) ==
    /\ isfile(dir, name)
    /\ (ext = {} \/ \A e \in ext : endswith(lower(Chars(name)), lower(Chars(e))))

\* files = [filename for filename in os.listdir(source_dir) if ...]
CollectFiles(dir, ext) == SelectSeq(listdir(dir), LAMBDA n : matches(dir, n, ext))

\* int(len(files) * percentage / 100), raised to 1 when 0 and files is not empty
num_files(len, p) ==
    LET n == (len * p) \div 100
    IN  IF n = 0 /\ len > 0 THEN 1 ELSE n

\* random.sample(files, k): the sequences of k distinct elements of files
sample(files, k) ==
    {s \in [1..k -> Range(files)] : \A i, j \in 1..k : s[i] = s[j] => i = j}

\* the lists the transfer loop may run over
ChosenFiles(files, percentage) ==
    IF percentage = {}
    THEN {files}
    ELSE UNION {sample(files, num_files(Len(files), p)) : p \in percentage}

\* for filename in files: try: shutil.move(...) except Exception: warn
\* raises is the set of files whose transfer raises.
RECURSIVE move_loopMutant(_, _, _)
move_loopMutant(files, raises, s) ==
    IF files = <<>> THEN s
    ELSE IF Head(files) \in raises THEN s
    ELSE move_loopMutant(Tail(files), raises, move(s, Head(files)))
RECURSIVE move_loop(_, _, _)
move_loop(files, raises, s) ==
    IF files = <<>> THEN s
    ELSE move_loop(Tail(files), raises,
                   IF Head(files) \in raises THEN s ELSE move(s, Head(files)))

\* for filename in files: try: shutil.copy2(...) except Exception: warn
RECURSIVE copy_loop(_, _, _)
copy_loop(files, raises, s) ==
    IF files = <<>> THEN s
    ELSE copy_loop(Tail(files), raises,
                   IF Head(files) \in raises THEN s ELSE copy2(s, Head(files)))

Call(op, ext, pct, cols, label, res, files, chosen, failed) ==
    [op |-> op, ext |-> ext, pct |-> pct, cols |-> cols, label |-> label,
     pre |-> fs, res |-> res, files |-> files, chosen |-> chosen,
     failed |-> failed]

move_files ==
    \E ext \in OptExtension, percentage \in OptPercentage :
        IF ~isdir(fs.srcExists)
        THEN /\ fs' = fs
             /\ last' = Call("move_files", ext, percentage, {}, {},
                             "FileNotFoundError", {}, {}, {})
        ELSE IF ~ValidPercentage(percentage)
        THEN /\ fs' = fs
             /\ last' = Call("move_files", ext, percentage, {}, {},
                             "ValueError", {}, {}, {})
        ELSE LET made == makedirs(fs)
                 files == CollectFiles(made.src, ext)
             IN  \E chosen \in ChosenFiles(files, percentage) :
                 \E raises \in SUBSET Range(chosen) :
                    /\ fs' = move_loop(chosen, raises, made)
                    /\ last' = Call("move_files", ext, percentage, {}, {},
                                    "ok", Range(files), Range(chosen), raises)

copy_files ==
    \E ext \in OptExtension, percentage \in OptPercentage :
        IF ~isdir(fs.srcExists)
        THEN /\ fs' = fs
             /\ last' = Call("copy_files", ext, percentage, {}, {},
                             "FileNotFoundError", {}, {}, {})
        ELSE IF ~ValidPercentage(percentage)
        THEN /\ fs' = fs
             /\ last' = Call("copy_files", ext, percentage, {}, {},
                             "ValueError", {}, {}, {})
        ELSE LET made == makedirs(fs)
                 files == CollectFiles(made.src, ext)
             IN  \E chosen \in ChosenFiles(files, percentage) :
                 \E raises \in SUBSET Range(chosen) :
                    /\ fs' = copy_loop(chosen, raises, made)
                    /\ last' = Call("copy_files", ext, percentage, {}, {},
                                    "ok", Range(files), Range(chosen), raises)

---------------------------------------------------------------------------
(* generate_csv *)

\* if not file_exists: ... writer.writerow(columns)
\* (reached with columns = None only when the file exists)
header_rowsMutant(file_exists, columns) ==
    IF columns # {} THEN <<CHOOSE c \in columns : TRUE>> ELSE <<>>
header_rows(file_exists, columns) ==
    IF ~file_exists THEN <<CHOOSE c \in columns : TRUE>> ELSE <<>>

\* row = [filename]; if label is not None: row.append(label)
make_rowMutant(filename, label) == <<filename>>
make_row(filename, label) ==
    IF label = {} THEN <<filename>>
    ELSE <<filename, CHOOSE l \in label : TRUE>>

\* for filename in os.listdir(source_dir): if os.path.isfile(filepath): ...
data_rows(dir, label) ==
    LET regular == SelectSeq(listdir(dir), LAMBDA n : isfile(dir, n))
    IN  [i \in 1..Len(regular) |-> make_row(regular[i], label)]

\* open(csv_filename, mode='a'): creates the file when it is absent
open_append(s) == [s EXCEPT !.csv.exists = TRUE]

generate_csv ==
    \E columns \in OptColumns, label \in OptLabel :
        IF ~isdir(fs.srcExists)
        THEN /\ fs' = fs
             /\ last' = Call("generate_csv", {}, {}, columns, label,
                             "FileNotFoundError", {}, {}, {})
        ELSE LET file_exists == fs.csv.exists
                 opened == open_append(fs)
                 header == header_rows(file_exists, columns)
                 rows == data_rows(fs.src, label)
             IN  IF ~file_exists /\ columns = {}
                 THEN /\ fs' = opened
                      /\ last' = Call("generate_csv", {}, {}, columns, label,
                                      "ValueError", {}, {}, {})
                 ELSE /\ Len(fs.csv.rows) + Len(header) + Len(rows) <= MaxRows
                      /\ fs' = [opened EXCEPT !.csv.rows = @ \o header \o rows]
                      /\ last' = Call("generate_csv", {}, {}, columns, label,
                                      "ok", {}, {}, {})

---------------------------------------------------------------------------
(* Initial states and specifications *)

\* The source directories a run starts from: every file name absent or a
\* regular file, the subdirectory absent or present; c.jpg and D.JPG are
\* not both present, so a listing holds at most three regular files.
SrcDirs ==
    {[n \in Names |-> IF n \in present
                      THEN IF n \in DirNames THEN DirEntry ELSE FileEntry(1)
                      ELSE NoEntry] :
     present \in {P \in SUBSET Names : ~({"c.jpg", "D.JPG"} \subseteq P)}}

EmptyDir == [n \in Names |-> NoEntry]

\* the destination may already hold a file named a.jpg, with other content
DstDirs == {EmptyDir, [EmptyDir EXCEPT !["a.jpg"] = FileEntry(2)]}

NoCsv == [exists |-> FALSE, rows |-> <<>>]

InitLast ==
    last = [op |-> "init", ext |-> {}, pct |-> {}, cols |-> {}, label |-> {},
            pre |-> fs, res |-> "ok", files |-> {}, chosen |-> {},
            failed |-> {}]

InitPartition ==
    /\ fs \in {[srcExists |-> se, src |-> IF se THEN s ELSE EmptyDir,
                dstExists |-> de, dst |-> IF de THEN d ELSE EmptyDir,
                csv |-> NoCsv] :
               se \in BOOLEAN, s \in SrcDirs, de \in BOOLEAN, d \in DstDirs}
    /\ InitLast

InitManifest ==
    /\ fs \in {[srcExists |-> se, src |-> IF se THEN s ELSE EmptyDir,
                dstExists |-> FALSE, dst |-> EmptyDir,
                csv |-> NoCsv] :
               se \in BOOLEAN, s \in SrcDirs}
    /\ InitLast

NextPartition == move_files \/ copy_files

NextManifest == generate_csv

SpecPartition == InitPartition /\ [][NextPartition]_vars

SpecManifest == InitManifest /\ [][NextManifest]_vars

---------------------------------------------------------------------------
(* Vocabulary of the properties *)

Regular(dir) == {n \in Names : dir[n].kind = "file"}

NumRegular(dir) == Cardinality(Regular(dir))

IsPartition == last.op \in {"move_files", "copy_files"}

\* the chosen files whose transfer did not raise
Transferred == last.chosen \ last.failed

PercentageInRange == \A p \in last.pct : 0 <= p /\ p <= 100

\* the rows a caller can supply as columns
HeaderRows == UNION OptColumns

\* the names of the model that end, case-insensitively, with the extension
SuffixTable(e) ==
    CASE e = ".jpg" -> {"a.jpg", "c.jpg", "D.JPG", "sub.jpg"}
      [] e = ".PNG" -> {"b.png"}

ExpectedRow(f, label) ==
    IF label = {} THEN <<f>> ELSE <<f, CHOOSE l \in label : TRUE>>

\* rows[lo..hi] is one row per regular file of dir, labelled with label
IsFullSet(rows, lo, hi, dir, label) ==
    /\ hi - lo + 1 = NumRegular(dir)
    /\ \A f \in Regular(dir) : \E i \in lo..hi : rows[i] = ExpectedRow(f, label)

Max(a, b) == IF a >= b THEN a ELSE b

---------------------------------------------------------------------------
(* Properties *)

\* C1: generate_csv on an absent manifest path with columns=None raises
\* ValueError and leaves no file at the manifest path.
C1_NoFileWithoutColumns ==
    (/\ last.op = "generate_csv"
     /\ last.pre.srcExists
     /\ ~last.pre.csv.exists
     /\ last.cols = {})
    => (last.res = "ValueError" /\ ~fs.csv.exists)

\* C2: for a percentage p in [0,100] and L > 0 candidates, move_files and
\* copy_files draw max(1, floor(L*p/100)) files when p > 0 and no file when
\* p = 0; the files drawn are a subset of the candidates, at most L of them.
C2_SampleSize ==
    (/\ IsPartition
     /\ last.res = "ok"
     /\ last.pct # {}
     /\ last.files # {})
    => LET L == Cardinality(last.files)
           p == CHOOSE q \in last.pct : TRUE
       IN  /\ Cardinality(last.chosen) =
                 IF p > 0 THEN Max(1, (L * p) \div 100) ELSE 0
           /\ last.chosen \subseteq last.files
           /\ Cardinality(last.chosen) <= L

\* C3: move_files / copy_files on a missing source directory raise
\* FileNotFoundError, and on a percentage outside [0,100] raise ValueError,
\* with the file system exactly as before the call (no destination
\* directory created, nothing moved or copied).
C3_ValidationBeforeMutation ==
    (IsPartition /\ (~last.pre.srcExists \/ ~PercentageInRange))
    => /\ last.res = IF ~last.pre.srcExists
                     THEN "FileNotFoundError" ELSE "ValueError"
       /\ fs = last.pre

C3_Witness ==
    /\ last.op = "copy_files"
    /\ last.pct = {101}
    /\ last.res = "ValueError"
    /\ Regular(fs.src) # {}
    /\ ~fs.dstExists

\* C4: after move_files, every file whose transfer succeeded is absent from
\* the source and present in the destination, and the number of source
\* files before the call is the number after it plus the number moved.
C4_MoveSemantics ==
    (last.op = "move_files" /\ last.res = "ok")
    => /\ \A f \in Transferred :
            /\ fs.src[f] = NoEntry
            /\ fs.dst[f].kind = "file"
            /\ fs.dst[f] = last.pre.src[f]
       /\ NumRegular(last.pre.src) =
            NumRegular(fs.src) + Cardinality(Transferred)

C4_Witness ==
    /\ last.op = "move_files"
    /\ last.res = "ok"
    /\ Cardinality(Transferred) = 2
    /\ last.failed # {}
    /\ last.pre.dst["a.jpg"] = FileEntry(2)
    /\ "a.jpg" \in Transferred

\* C5: after copy_files, every file whose transfer succeeded is in the
\* source and in the destination with equal content, and the source
\* directory's files and their contents are unchanged.
C5_CopySemantics ==
    (last.op = "copy_files" /\ last.res = "ok")
    => /\ \A f \in Transferred :
            /\ fs.src[f].kind = "file"
            /\ fs.dst[f] = fs.src[f]
       /\ fs.src = last.pre.src
       /\ fs.srcExists = last.pre.srcExists

C5_Witness ==
    /\ last.op = "copy_files"
    /\ last.res = "ok"
    /\ "a.jpg" \in Transferred
    /\ last.pre.dst["a.jpg"] = FileEntry(2)
    /\ fs.dst["a.jpg"] = FileEntry(1)
    /\ fs.src["a.jpg"] = FileEntry(1)

\* C6: two generate_csv calls in sequence on an absent manifest path, with
\* the same (supplied) columns and the same source directory, leave a
\* manifest of one header line, the first, followed by two full sets of
\* data rows; no other line is a header.
C6_SingleHeaderTwoCalls ==
    [][(/\ last.op = "generate_csv"
        /\ last.res = "ok"
        /\ ~last.pre.csv.exists
        /\ last'.op = "generate_csv"
        /\ last'.res = "ok"
        /\ last'.cols = last.cols
        /\ last'.pre = fs)
       => LET rows == fs'.csv.rows
              n == NumRegular(fs.src)
          IN  /\ fs'.src = fs.src
              /\ Len(rows) = 1 + 2 * n
              /\ {rows[1]} = last.cols
              /\ \A i \in 2..Len(rows) : rows[i] \notin HeaderRows
              /\ IsFullSet(rows, 2, n + 1, fs.src, last.label)
              /\ IsFullSet(rows, n + 2, 2 * n + 1, fs.src, last'.label)]_vars

C6_Witness ==
    /\ last.op = "generate_csv"
    /\ last.res = "ok"
    /\ last.cols # {}
    /\ last.pre.csv.exists
    /\ NumRegular(fs.src) = 2
    /\ Len(last.pre.csv.rows) = 3
    /\ {last.pre.csv.rows[1]} = last.cols
    /\ Len(fs.csv.rows) = 5

\* C7: generate_csv on an existing manifest ignores columns (None raises
\* nothing), writes no header, keeps the previous content as a prefix and
\* appends one row per regular file of the source directory, [filename]
\* plus [label] exactly when a label is given.
C7_AppendOnly ==
    (/\ last.op = "generate_csv"
     /\ last.pre.srcExists
     /\ last.pre.csv.exists)
    => LET old == last.pre.csv.rows
           new == fs.csv.rows
       IN  /\ last.res = "ok"
           /\ fs.csv.exists
           /\ Len(new) = Len(old) + NumRegular(fs.src)
           /\ SubSeq(new, 1, Len(old)) = old
           /\ \A i \in (Len(old) + 1)..Len(new) : new[i] \notin HeaderRows
           /\ IsFullSet(new, Len(old) + 1, Len(new), fs.src, last.label)

C7_Witness ==
    /\ last.op = "generate_csv"
    /\ last.res = "ok"
    /\ last.cols = {}
    /\ last.label # {}
    /\ last.pre.csv.exists
    /\ last.pre.csv.rows # <<>>
    /\ Len(fs.csv.rows) > Len(last.pre.csv.rows)
    /\ fs.src["sub.jpg"] = DirEntry

\* C8: in move_files and copy_files a transfer that raises does not abort
\* the batch: the call returns normally, every chosen file whose transfer
\* does not raise is transferred.
C8_FailureIsolated ==
    (IsPartition /\ last.pre.srcExists /\ PercentageInRange)
    => /\ last.res = "ok"
       /\ \A f \in Transferred :
            /\ fs.dst[f] = last.pre.src[f]
            /\ last.op = "move_files" => fs.src[f] = NoEntry

C8_Witness ==
    /\ IsPartition
    /\ last.res = "ok"
    /\ Cardinality(last.failed) = 1
    /\ Cardinality(Transferred) = 2
    /\ \A f \in Transferred : fs.dst[f] = last.pre.src[f]

\* C9: with an extension, move_files / copy_files take their candidates
\* among the regular files whose lowercased name ends with the lowercased
\* extension, and leave every other entry of the source (subdirectories
\* included) untouched; without one, every regular file is a candidate.
\* For a source holding a.jpg, b.png, c.jpg, move_files with '.jpg' and 50
\* draws one of a.jpg / c.jpg, moves it (when its transfer does not raise),
\* and leaves the other and b.png in the source.
C9_ExtensionFilter ==
    (IsPartition /\ last.res = "ok")
    => /\ last.files =
            IF last.ext = {} THEN Regular(last.pre.src)
            ELSE {n \in Regular(last.pre.src) :
                     \A e \in last.ext : n \in SuffixTable(e)}
       /\ last.chosen \subseteq last.files
       /\ \A n \in Names \ last.files : fs.src[n] = last.pre.src[n]
       /\ (/\ last.op = "move_files"
           /\ Regular(last.pre.src) = {"a.jpg", "b.png", "c.jpg"}
           /\ last.ext = {".jpg"}
           /\ last.pct = {50})
          => /\ Cardinality(last.chosen) = 1
             /\ last.chosen \subseteq {"a.jpg", "c.jpg"}
             /\ fs.src["b.png"] = last.pre.src["b.png"]
             /\ \A f \in {"a.jpg", "c.jpg"} \ last.chosen :
                    /\ fs.src[f] = last.pre.src[f]
                    /\ fs.dst[f] = last.pre.dst[f]
             /\ \A f \in Transferred :
                    /\ fs.src[f] = NoEntry
                    /\ fs.dst[f] = last.pre.src[f]

C9_Witness ==
    /\ last.op = "move_files"
    /\ last.res = "ok"
    /\ Regular(last.pre.src) = {"a.jpg", "b.png", "c.jpg"}
    /\ last.pre.src["sub.jpg"] = DirEntry
    /\ last.ext = {".jpg"}
    /\ last.pct = {50}
    /\ last.failed = {}
    /\ Regular(fs.src) = {"a.jpg", "b.png"}
    /\ Regular(fs.dst) = {"c.jpg"}
    /\ fs.src["sub.jpg"] = DirEntry

\* C10: starting from an absent manifest, after any sequence of
\* generate_csv calls a manifest file that exists starts with a header row
\* supplied as columns and holds exactly one header row.
C10_HeaderOnCreate ==
    fs.csv.exists
    => LET rows == fs.csv.rows
       IN  /\ Len(rows) >= 1
           /\ rows[1] \in HeaderRows
           /\ Cardinality({i \in DOMAIN rows : rows[i] \in HeaderRows}) = 1

====
